---- MODULE Spec2Model ----
(***************************************************************************)
(* A model of sunfish: the static export pipeline (Sunfish::export), the   *)
(* request dispatcher (Sunfish::handle, serve_page, serve_asset) and the   *)
(* build-time embedding generator (include_dir / embedded_directory).      *)
(*                                                                         *)
(* Text (paths, file names, header values) is a sequence of tokens; the    *)
(* token "/" is the path separator and no other token contains it, so a    *)
(* Rust string operation on '/' is the same operation on the "/" token.    *)
(* Tokens that begin with '.' are listed in DotTokens.                     *)
(***************************************************************************)
EXTENDS Integers, Sequences, FiniteSets, TLC

VARIABLES
    \* ---- the filesystem (shared by export) ----
    files,      \* regular files: full path -> content
    dirs,       \* directories: set of full paths
    \* ---- Sunfish::export ----
    routes,     \* self.routes: sequence of RouteInitializer
    pc,         \* position inside export
    walk,       \* entries the Walk iterator has not yielded yet
    ri,         \* index of the route the outer loop is at
    pend,       \* paths of the current Static route not yet written
    result,     \* what export returned: "none" (running), "ok", "err", "panic"
    failedOp,   \* the filesystem operation that failed, "none" if none did
    log,        \* history: the copies, renders and writes of this invocation
    prev,       \* history: how the previous invocation ended
    \* ---- Sunfish::handle ----
    output,     \* self.output: the IncludeDir, [mode, entries]
    request,    \* the http::Request being handled
    spc,        \* position inside handle
    pageOutcome,\* what serve_page returned: "none", "some", "err" ("unset" before)
    response,   \* what handle returned
    reads,      \* history: calls of self.output.read during this handle
    \* ---- include_dir! / embedded_directory ----
    src,        \* the source tree: relative path -> [kind, data, target]
    gpc,        \* position of the generator and of the compilation after it
    absolute_paths, \* the sorted paths embedded_directory collected
    hashes,     \* the hashes computed so far, in the order of absolute_paths
    embedded    \* the map the generated code builds: relative path -> file

exportVars == <<files, dirs, routes, pc, walk, ri, pend, result, failedOp, log, prev>>

serveVars == <<output, request, spc, pageOutcome, response, reads>>

embedVars == <<src, gpc, absolute_paths, hashes, embedded>>

vars == <<files, dirs, routes, pc, walk, ri, pend, result, failedOp, log, prev,
          output, request, spc, pageOutcome, response, reads,
          src, gpc, absolute_paths, hashes, embedded>>

-----------------------------------------------------------------------------
(* Text helpers                                                            *)

SEP == "/"

DotTokens == {".htaccess", ".html", ".css"}

StartsWith(s, t) == Len(s) >= Len(t) /\ SubSeq(s, 1, Len(t)) = t

\* str::ends_with('/')
EndsWithSep(s) == Len(s) > 0 /\ s[Len(s)] = SEP

\* str::strip_prefix('/'): <<TRUE, rest>> or <<FALSE, <<>>>> for None
StripSep(s) == IF Len(s) > 0 /\ s[1] = SEP THEN <<TRUE, Tail(s)>> ELSE <<FALSE, <<>>>>

\* Path::join: an absolute argument replaces the base
Join(base, rel) ==
    IF Len(rel) > 0 /\ rel[1] = SEP THEN rel
    ELSE IF rel = <<>> THEN base
    ELSE base \o <<SEP>> \o rel

SepPositions(p) == {k \in 1..Len(p) : p[k] = SEP}

\* Path::parent
Parent(p) ==
    IF SepPositions(p) = {} THEN <<>>
    ELSE LET k == CHOOSE m \in SepPositions(p) : \A n \in SepPositions(p) : n <= m
         IN SubSeq(p, 1, k - 1)

\* every proper ancestor directory of p
Ancestors(p) == {SubSeq(p, 1, k - 1) : k \in SepPositions(p)} \ {<<>>}

\* p is d or lies below d
Under(d, p) == p = d \/ StartsWith(p, d \o <<SEP>>)

\* Path::strip_prefix(base) of a path below base
StripPrefix(p, base) == SubSeq(p, Len(base) + 2, Len(p))

-----------------------------------------------------------------------------
(* hash: the fingerprint of a byte sequence                                *)

HexDigits == <<"0", "1", "2", "3", "4", "5", "6", "7", "8", "9",
               "a", "b", "c", "d", "e", "f">>

\* sha2::Sha256 over the bytes, scaled down to a 16-bit digest: every byte
\* and its position enter the digest
RECURSIVE Sha256(_, _)
Sha256(bytes, acc) ==
    IF bytes = <<>> THEN acc
    ELSE Sha256(Tail(bytes), (acc * 33 + Head(bytes) + 1) % 65536)

\* hex::encode of the 16-bit digest: four hex digits, high digit first
HexEncode(d) ==
    << HexDigits[(d \div 4096) + 1], HexDigits[((d \div 256) % 16) + 1],
       HexDigits[((d \div 16) % 16) + 1], HexDigits[(d % 16) + 1] >>

\* hash(bytes): the leading hex digits of the digest (the code keeps the
\* first 16 of 64; the model the first 2 of 4)
Fingerprint(bytes) == SubSeq(HexEncode(Sha256(bytes, 5381)), 1, 2)

-----------------------------------------------------------------------------
(* The filesystem, as std::fs sees it                                      *)

\* std::fs::metadata(p).is_ok()
Exists(p) == p \in dirs \/ p \in DOMAIN files

\* Path::is_file
IsFile(p) == p \in DOMAIN files

\* std::fs::create_dir_all(p) succeeds unless a component is a regular file
CanCreateDirAll(p) == \A d \in Ancestors(p) \cup {p} : d \notin DOMAIN files

DirsAfterCreateDirAll(p) == dirs \cup ((Ancestors(p) \cup {p}) \ {<<>>})

FilesWith(p, content) ==
    [q \in DOMAIN files \cup {p} |-> IF q = p THEN content ELSE files[q]]

\* what a failed write or copy leaves at its target: nothing new, or a
\* truncated file
PartialContent == <<"partial", 0, <<>>>>

FilesWithout(d) ==
    [q \in {r \in DOMAIN files : ~Under(d, r)} |-> files[q]]

-----------------------------------------------------------------------------
(* The directory abstraction and the requests                              *)

MaxValidators == 1

NoHash == <<FALSE, <<>>>>

NoRequest == [method |-> "GET", path |-> <<SEP>>, if_none_match |-> <<>>]

NoResponse == [kind |-> "none", status |-> 0, content_type |-> <<>>,
               etag |-> NoHash, body |-> <<>>]

\* the generator before any build
EmbedIdle ==
    /\ src = <<>>
    /\ gpc = "idle"
    /\ absolute_paths = <<>>
    /\ hashes = <<>>
    /\ embedded = <<>>

\* the dispatcher when no request is being handled and nothing is embedded
ServeIdle ==
    /\ output = [mode |-> "Included", entries |-> <<>>]
    /\ request = NoRequest
    /\ spc = "idle"
    /\ pageOutcome = "unset"
    /\ response = NoResponse
    /\ reads = 0

\* contents a served file may have
FileData == { <<98>>, <<98, 123>> }

\* relative paths the directory may hold
DirPaths == { <<"a", SEP, "x", ".css">>, <<"logo", ".png">> }

\* IncludedFile { data, hash } / FsFile: in an embedded directory every file
\* carries the fingerprint of its data, a filesystem file carries none
File(mode, data) ==
    [data |-> data, hash |-> IF mode = "Included" THEN <<TRUE, Fingerprint(data)>> ELSE NoHash]

Directories ==
    UNION { { [mode |-> m, entries |-> [p \in ps |-> File(m, d[p])]] :
                d \in [ps -> FileData], m \in {"Included", "Fs"} }
            : ps \in SUBSET DirPaths }

\* IncludeDir::read(path): the file at the path, <<FALSE, _>> for None
Read(dir, path) ==
    IF path \in DOMAIN dir.entries THEN <<TRUE, dir.entries[path]>>
    ELSE <<FALSE, File("Fs", <<>>)>>

Methods == {"GET", "HEAD", "POST"}

RequestPaths ==
    { <<SEP>>, <<SEP, "a", SEP, "x", ".css">>, <<SEP, "logo", ".png">>, <<SEP, "missing">> }

\* values an If-None-Match header may carry: a fingerprint, a fingerprint
\* written as a weak or quoted validator, the wildcard
ValidatorValues ==
    {Fingerprint(d) : d \in FileData}
    \cup {<<"W/">> \o Fingerprint(d) : d \in FileData}
    \cup { <<"*">> }

Requests ==
    { [method |-> m, path |-> p, if_none_match |-> v] :
        m \in Methods, p \in RequestPaths,
        v \in UNION { [1..n -> ValidatorValues] : n \in 0..MaxValidators } }

\* responses the page-dispatch function may give
PageResponses ==
    { [kind |-> "some", status |-> st, content_type |-> <<>>, etag |-> NoHash,
       body |-> <<"page">>] : st \in {200, 404} }

-----------------------------------------------------------------------------
(* Sunfish::handle, serve_page, serve_asset                                *)

\* content_type(path): the fixed extension table
ContentType(path) ==
    IF path = <<>> THEN <<>>
    ELSE IF path[Len(path)] = ".css" THEN <<"text/css">>
    ELSE IF path[Len(path)] = ".js" THEN <<"text/javascript">>
    ELSE IF path[Len(path)] = ".svg" THEN <<"image/svg+xml">>
    ELSE IF path[Len(path)] = ".wasm" THEN <<"application/wasm">>
    ELSE <<>>

\* request.headers().get(IF_NONE_MATCH): the first value, if any
GetIfNoneMatch(req) ==
    IF req.if_none_match = <<>> THEN <<FALSE, <<>>>> ELSE <<TRUE, req.if_none_match[1]>>

\* mutant: any validator at all answers 304
NotModified_AnyValidator(file, req) == file.hash[1] /\ GetIfNoneMatch(req)[1]

\* the file has a hash and the header's bytes equal the hash's bytes
NotModified(file, req) ==
    /\ file.hash[1]
    /\ GetIfNoneMatch(req)[1]
    /\ GetIfNoneMatch(req)[2] = file.hash[2]

\* the response serve_asset builds for a file it found
AssetResponse(path, file, req) ==
    IF NotModified(file, req)
    THEN [kind |-> "some", status |-> 304, content_type |-> ContentType(path),
          etag |-> file.hash, body |-> <<>>]
    ELSE [kind |-> "some", status |-> 200, content_type |-> ContentType(path),
          etag |-> file.hash, body |-> file.data]

Absent == [NoResponse EXCEPT !.kind = "absent"]

\* a request arrives; a finished call may be followed by another
HandleBegin(req) ==
    /\ spc \in {"idle", "done"}
    /\ request' = req
    /\ spc' = "page"
    /\ pageOutcome' = "unset"
    /\ response' = NoResponse
    /\ reads' = 0
    /\ UNCHANGED output

\* mutant: serve_asset is tried whatever serve_page returned
AfterPage_AlwaysAsset(outcome) == IF outcome = "err" THEN "done" ELSE "asset"

\* match response { Some(response) => Some(response), None => serve_asset }
\* and the `?` on serve_page's result
AfterPage(outcome) == IF outcome = "none" THEN "asset" ELSE "done"

\* self.serve_page(request).await?: the opaque routes_handler answers with a
\* response, with None or with an error; it holds the request mutably and
\* may have rewritten its path
ServePage(outcome, resp, newPath) ==
    /\ spc = "page"
    /\ pageOutcome' = outcome
    /\ request' = [request EXCEPT !.path = newPath]
    /\ response' = IF outcome = "some" THEN resp
                   ELSE IF outcome = "err" THEN [NoResponse EXCEPT !.kind = "err"]
                   ELSE NoResponse
    /\ spc' = AfterPage(outcome)
    /\ UNCHANGED <<output, reads>>

\* self.serve_asset(request).await?
ServeAsset ==
    /\ spc = "asset"
    /\ spc' = "done"
    /\ LET stripped == StripSep(request.path)
           file == Read(output, stripped[2])
       IN IF request.method # "GET"
          THEN response' = Absent /\ reads' = reads
          ELSE IF ~stripped[1]
          THEN response' = [NoResponse EXCEPT !.kind = "panic"] /\ reads' = reads
          ELSE /\ reads' = reads + 1
               /\ response' = IF file[1] THEN AssetResponse(stripped[2], file[2], request)
                               ELSE Absent
    /\ UNCHANGED <<output, request, pageOutcome>>

\* development mode: the live directory changes under the server
ExternalChange(path, data) ==
    /\ output.mode = "Fs"
    /\ path \in DOMAIN output.entries
    /\ output.entries[path].data # data
    /\ output' = [output EXCEPT !.entries[path] = File("Fs", data)]
    /\ UNCHANGED <<request, spc, pageOutcome, response, reads>>

ExportIdle ==
    /\ files = <<>>
    /\ dirs = {}
    /\ routes = <<>>
    /\ pc = "idle"
    /\ walk = {}
    /\ ri = 0
    /\ pend = <<>>
    /\ result = "none"
    /\ failedOp = "none"
    /\ log = <<>>
    /\ prev = "none"

InitServe ==
    /\ output \in Directories
    /\ request = NoRequest
    /\ spc = "idle"
    /\ pageOutcome = "unset"
    /\ response = NoResponse
    /\ reads = 0
    /\ ExportIdle
    /\ EmbedIdle

NextServe ==
    \/ \E req \in Requests : HandleBegin(req) /\ UNCHANGED <<exportVars, embedVars>>
    \/ \E outcome \in {"none", "some", "err"}, resp \in PageResponses,
          newPath \in {request.path, <<SEP, "logo", ".png">>} :
          ServePage(outcome, resp, newPath) /\ UNCHANGED <<exportVars, embedVars>>
    \/ ServeAsset /\ UNCHANGED <<exportVars, embedVars>>
    \/ \E path \in DirPaths, data \in FileData :
          ExternalChange(path, data) /\ UNCHANGED <<exportVars, embedVars>>

SpecServe == InitServe /\ [][NextServe]_vars

-----------------------------------------------------------------------------
(* Properties of the dispatcher                                            *)

\* C1: when serve_asset answers a GET for a path the directory holds, the
\* answer is 304 with an empty body exactly when the file has a hash and the
\* (first) If-None-Match value equals it byte for byte; otherwise, whether
\* the value differs, is missing, or the file has no hash, it is 200 with
\* the file's whole content.
C1_ConditionalGet ==
    [][ (/\ spc = "asset" /\ spc' = "done"
         /\ request.method = "GET"
         /\ request.path[1] = "/"
         /\ Tail(request.path) \in DOMAIN output.entries)
        => LET f == output.entries[Tail(request.path)]
               inm == request.if_none_match
           IN /\ response'.kind = "some"
              /\ IF f.hash[1] /\ inm # <<>> /\ inm[1] = f.hash[2]
                 THEN response'.status = 304 /\ response'.body = <<>>
                 ELSE response'.status = 200 /\ response'.body = f.data
      ]_vars

\* C1 witness: serve_asset answered 304 to a matching validator
C1_Witness ==
    /\ spc = "done" /\ reads = 1 /\ response.status = 304
    /\ request.if_none_match # <<>>
    /\ output.mode = "Included"

\* C2: serve_asset is tried only after page dispatch yielded no match; a
\* page response is returned as it is with the directory never consulted;
\* handle returns absence exactly when page dispatch yielded none and the
\* method is not GET or the path, leading separator stripped, is not in the
\* directory.
C2_PageFirst ==
    [][ /\ spc' = "asset" => pageOutcome' = "none"
        /\ reads' > 0 => pageOutcome' = "none"
        /\ (spc = "page" /\ spc' # "page" /\ pageOutcome' = "some")
              => spc' = "done" /\ response' \in PageResponses /\ reads' = 0
        /\ (spc' = "done" /\ pageOutcome' = "some")
              => response' \in PageResponses /\ reads' = 0
        /\ spc' = "done"
              => (response'.kind = "absent"
                    <=> /\ pageOutcome' = "none"
                        /\ \/ request'.method # "GET"
                           \/ Tail(request'.path) \notin DOMAIN output'.entries)
      ]_vars

\* C2 witness: page dispatch answered for a path the directory also holds
C2_Witness ==
    /\ spc = "done" /\ pageOutcome = "some" /\ reads = 0
    /\ request.method = "GET"
    /\ Tail(request.path) \in DOMAIN output.entries

-----------------------------------------------------------------------------
(* Inputs of export                                                        *)

MaxRoutes == 2
MaxAssets == 2
MaxPaths == 2

out_dir == <<"out">>
dist_path == <<"dist">>

\* let output_path = out_dir.join("output")
output_path == Join(out_dir, <<"output">>)

\* files an asset root may hold, relative to it
AssetUniverse ==
    { <<"about", ".html">>, <<"blog", SEP, "style", ".css">>, <<".htaccess">> }

AssetTrees == {t \in SUBSET AssetUniverse : Cardinality(t) <= MaxAssets}

AssetContent(rel) == <<"asset", 0, rel>>

\* what dist_path holds before the first export, as <<exists, stale files>>:
\* nothing, or files of an older site (an existing empty dist_path is what
\* an export aborted in its copy loop leaves to the next one)
StaleContent(rel) == <<"stale", 0, rel>>

PriorDists ==
    { <<FALSE, {}>>,
      <<TRUE, { <<"index", ".html">>, <<"old", SEP, "page", ".html">> }>> }

\* Route::Static { paths, handler } and Route::Dynamic { handler }, with the
\* RouteInitializer's path_with_placeholders; paths is <<FALSE, <<>>>> for
\* None and <<TRUE, p>> for Some(|| p)
StaticRoute(pattern, paths) == [kind |-> "Static", pattern |-> pattern, paths |-> paths]

DynamicRoute(pattern) ==
    [kind |-> "Dynamic", pattern |-> pattern, paths |-> <<FALSE, <<>>>>]

NoPaths == <<FALSE, <<>>>>

PagePatterns == { <<SEP>>, <<SEP, "blog", SEP>>, <<SEP, "about">>, <<SEP, "index">> }

\* what a path enumerator may return: up to MaxPaths paths, repeats allowed
EnumPaths == { <<SEP>>, <<SEP, "index">>, <<SEP, "blog", SEP>> }

Enumerations == UNION { [1..n -> EnumPaths] : n \in 0..MaxPaths }

RouteChoices ==
    {DynamicRoute(<<SEP, "api">>)}
    \cup {StaticRoute(p, NoPaths) : p \in PagePatterns}
    \cup {StaticRoute(<<SEP, "posts", SEP, "_">>, <<TRUE, e>>) : e \in Enumerations}

\* a route table: the patterns of its routes are distinct
RouteTables ==
    UNION { {t \in [1..n -> RouteChoices] :
                \A a, b \in 1..n : a # b => t[a].pattern # t[b].pattern}
            : n \in 0..MaxRoutes }

\* the Static handler of route r: fn(String) -> String
Render(r, path) == <<"page", r, path>>

-----------------------------------------------------------------------------
(* Sunfish::export                                                         *)

\* a component of rel begins with '.'
Hidden(rel) ==
    Len(rel) > 0 /\
    (rel[1] \in DotTokens \/
     \E k \in SepPositions(rel) : k < Len(rel) /\ rel[k + 1] \in DotTokens)

\* ignore::Walk::new(root): the root, then every directory and file below it
\* that the standard filters keep; hidden entries (a component beginning
\* with '.') are filtered out, together with what lies below them
Walk(root) ==
    {root} \cup
    {e \in (DOMAIN files) \cup dirs :
        Under(root, e) /\ e # root /\ ~Hidden(StripPrefix(e, root))}

\* mutant: the arm for a path ending in '/' is missing
ExportFileName_NoDirectoryArm(path) ==
    IF path = <<SEP>> THEN <<SEP, "index", ".html">>
    ELSE path \o <<".html">>

\* the match on path.as_str() that names the page's file
ExportFileName(path) ==
    IF path = <<SEP>> THEN <<SEP, "index", ".html">>
    ELSE IF EndsWithSep(path) THEN path \o <<"index", ".html">>
    ELSE path \o <<".html">>

\* mutant: the enumerated paths are taken last to first
ConcretePaths_Reversed(route) ==
    IF route.paths[1]
    THEN [k \in 1..Len(route.paths[2]) |-> route.paths[2][Len(route.paths[2]) + 1 - k]]
    ELSE <<route.pattern>>

\* paths.map(|paths| paths()).unwrap_or_else(|| vec![path_with_placeholders])
ConcretePaths(route) ==
    IF route.paths[1] THEN route.paths[2] ELSE <<route.pattern>>

\* mutant: a Dynamic route is exported under its pattern
PathsToExport_DynamicToo(route) == ConcretePaths(route)

\* the paths the routes loop writes for a route: none for Route::Dynamic
PathsToExport(route) ==
    IF route.kind = "Static" THEN ConcretePaths(route) ELSE <<>>

Event(op, r, path, target, content) ==
    [op |-> op, route |-> r, path |-> path, target |-> target, content |-> content]

\* export returns (Err through `?`) or unwinds (a panic from unwrap)
Abort(op, how) ==
    /\ pc' = "done"
    /\ result' = how
    /\ failedOp' = op
    /\ walk' = {}
    /\ ri' = 0
    /\ pend' = <<>>

\* a caller invokes export; a finished invocation may be followed by another
ExportBegin ==
    /\ pc \in {"idle", "done"}
    /\ pc' = "remove"
    /\ result' = "none"
    /\ failedOp' = "none"
    /\ log' = <<>>
    /\ prev' = IF pc = "idle" THEN prev ELSE IF result = "ok" THEN "ok" ELSE "aborted"
    /\ UNCHANGED <<files, dirs, routes, walk, ri, pend>>

\* std::fs::remove_dir_all(&dist_path)?
RemoveFailed == Abort("remove_dir_all", "err")

\* mutant: an existing dist_path is kept
ShouldRemove_Never == FALSE

\* if metadata(&dist_path).is_ok() { remove_dir_all(&dist_path)?; }
ShouldRemove == Exists(dist_path)

RemoveDistDir(fault) ==
    /\ pc = "remove"
    /\ IF ~ShouldRemove
       THEN /\ ~fault
            /\ pc' = "create"
            /\ UNCHANGED <<files, dirs, result, failedOp, walk, ri, pend>>
       ELSE IF ~fault
       THEN /\ files' = FilesWithout(dist_path)
            /\ dirs' = {d \in dirs : ~Under(dist_path, d)}
            /\ pc' = "create"
            /\ UNCHANGED <<result, failedOp, walk, ri, pend>>
       ELSE /\ \E emptied \in BOOLEAN :
                 files' = IF emptied THEN FilesWithout(dist_path) ELSE files
            /\ dirs' = dirs
            /\ RemoveFailed
    /\ UNCHANGED <<routes, log, prev>>

\* std::fs::create_dir_all(&dist_path)?
CreateFailed == Abort("create_dir_all", "err")

CreateDistDir(fault) ==
    /\ pc = "create"
    /\ IF fault \/ ~CanCreateDirAll(dist_path)
       THEN /\ CreateFailed
            /\ UNCHANGED <<files, dirs>>
       ELSE /\ dirs' = DirsAfterCreateDirAll(dist_path)
            /\ walk' = Walk(output_path)
            /\ pc' = "copy"
            /\ UNCHANGED <<files, result, failedOp, ri, pend>>
    /\ UNCHANGED <<routes, log, prev>>

\* the for loop over Walk::new(&output_path) is over: on to the routes
AfterEntry(e) ==
    /\ walk' = walk \ {e}
    /\ pc' = IF walk \ {e} = {} THEN "routes" ELSE "copy"
    /\ UNCHANGED <<result, failedOp, ri, pend>>

\* one iteration of the copy loop; fault names the operation the
\* environment fails: "walk", "mkdir", "copy", or "none"
CopyEntry(e, fault) ==
    /\ pc = "copy"
    /\ e \in walk
    /\ LET path == StripPrefix(e, output_path)
           target == Join(dist_path, path)
       IN IF fault = "walk"
          THEN /\ Abort("walk", "panic")
               /\ UNCHANGED <<files, dirs, log>>
          ELSE IF ~IsFile(e)
          THEN /\ fault = "none"
               /\ AfterEntry(e)
               /\ UNCHANGED <<files, dirs, log>>
          ELSE IF fault = "mkdir" \/ ~CanCreateDirAll(Parent(target))
          THEN /\ Abort("create_dir_all", "panic")
               /\ UNCHANGED <<files, dirs, log>>
          ELSE IF fault = "copy" \/ target \in DirsAfterCreateDirAll(Parent(target))
          THEN /\ Abort("copy", "panic")
               /\ dirs' = DirsAfterCreateDirAll(Parent(target))
               /\ \E truncated \in BOOLEAN :
                    files' = IF truncated /\ target \notin dirs'
                             THEN FilesWith(target, PartialContent) ELSE files
               /\ UNCHANGED log
          ELSE /\ dirs' = DirsAfterCreateDirAll(Parent(target))
               /\ files' = FilesWith(target, files[e])
               /\ log' = Append(log, Event("copy", 0, path, target, files[e]))
               /\ AfterEntry(e)
    /\ UNCHANGED <<routes, prev>>

\* for route in self.routes.iter() { match (route.init)() { ... } }
InitRoute ==
    /\ pc = "routes"
    /\ pend = <<>>
    /\ ri < Len(routes)
    /\ ri' = ri + 1
    /\ pend' = PathsToExport(routes[ri + 1])
    /\ UNCHANGED <<files, dirs, routes, pc, walk, result, failedOp, log, prev>>

\* mutant: the error of std::fs::write is dropped and the loop goes on
WriteFailed_Ignored ==
    /\ failedOp' = "write"
    /\ pend' = Tail(pend)
    /\ UNCHANGED <<pc, result, walk, ri>>

\* std::fs::write(&output_html_path, html)?
WriteFailed == Abort("write", "err")

\* one iteration of the loop over a Static route's paths; fault names the
\* operation the environment fails: "mkdir", "write", or "none"
WritePage(fault) ==
    /\ pc = "routes"
    /\ pend # <<>>
    /\ LET path == Head(pend)
           stripped == StripSep(ExportFileName(path))
           target == Join(dist_path, stripped[2])
           html == Render(ri, path)
           rendered == Append(log, Event("render", ri, path, <<>>, html))
       IN IF ~stripped[1]
          THEN /\ fault = "none"
               /\ Abort("strip_prefix", "panic")
               /\ UNCHANGED <<files, dirs, log>>
          ELSE IF fault = "mkdir" \/ ~CanCreateDirAll(Parent(target))
          THEN /\ Abort("create_dir_all", "panic")
               /\ log' = rendered
               /\ UNCHANGED <<files, dirs>>
          ELSE IF fault = "write" \/ target \in DirsAfterCreateDirAll(Parent(target))
          THEN /\ WriteFailed
               /\ dirs' = DirsAfterCreateDirAll(Parent(target))
               /\ \E truncated \in BOOLEAN :
                    files' = IF truncated /\ target \notin dirs'
                             THEN FilesWith(target, PartialContent) ELSE files
               /\ log' = rendered
          ELSE /\ dirs' = DirsAfterCreateDirAll(Parent(target))
               /\ files' = FilesWith(target, html)
               /\ log' = Append(rendered, Event("write", ri, path, target, html))
               /\ pend' = Tail(pend)
               /\ UNCHANGED <<pc, walk, ri, result, failedOp>>
    /\ UNCHANGED <<routes, prev>>

\* Ok(())
ExportReturn ==
    /\ pc = "routes"
    /\ pend = <<>>
    /\ ri = Len(routes)
    /\ pc' = "done"
    /\ result' = "ok"
    /\ ri' = 0
    /\ UNCHANGED <<files, dirs, routes, walk, pend, failedOp, log, prev>>

InitExport ==
    /\ \E assets \in AssetTrees, prior \in PriorDists :
         /\ files = [p \in {Join(output_path, a) : a \in assets}
                          \cup {Join(dist_path, f) : f \in prior[2]}
                     |-> IF Under(output_path, p)
                         THEN AssetContent(StripPrefix(p, output_path))
                         ELSE StaleContent(StripPrefix(p, dist_path))]
         /\ dirs = {out_dir, output_path}
                   \cup UNION {Ancestors(Join(output_path, a)) : a \in assets}
                   \cup (IF prior[1] THEN {dist_path} ELSE {})
                   \cup UNION {Ancestors(Join(dist_path, f)) : f \in prior[2]}
    /\ routes \in RouteTables
    /\ pc = "idle"
    /\ walk = {}
    /\ ri = 0
    /\ pend = <<>>
    /\ result = "none"
    /\ failedOp = "none"
    /\ log = <<>>
    /\ prev = "none"
    /\ ServeIdle
    /\ EmbedIdle

NextExport ==
    \/ ExportBegin /\ UNCHANGED <<serveVars, embedVars>>
    \/ \E fault \in BOOLEAN : RemoveDistDir(fault) /\ UNCHANGED <<serveVars, embedVars>>
    \/ \E fault \in BOOLEAN : CreateDistDir(fault) /\ UNCHANGED <<serveVars, embedVars>>
    \/ \E e \in walk, fault \in {"none", "walk", "mkdir", "copy"} :
          CopyEntry(e, fault) /\ UNCHANGED <<serveVars, embedVars>>
    \/ InitRoute /\ UNCHANGED <<serveVars, embedVars>>
    \/ \E fault \in {"none", "mkdir", "write"} : WritePage(fault) /\ UNCHANGED <<serveVars, embedVars>>
    \/ ExportReturn /\ UNCHANGED <<serveVars, embedVars>>

SpecExport == InitExport /\ [][NextExport]_vars

-----------------------------------------------------------------------------
(* Properties of export                                                    *)

Range(seq) == {seq[k] : k \in DOMAIN seq}

\* the files and directories at or below dist_path
DistFiles == {f \in DOMAIN files : Under(dist_path, f)}
DistDirs == {d \in dirs : Under(dist_path, d)}

\* positions of the log where a file was copied or written
Writes == {k \in DOMAIN log : log[k].op \in {"copy", "write"}}
PageWrites == {k \in DOMAIN log : log[k].op = "write"}
Renders == {k \in DOMAIN log : log[k].op = "render"}

\* the concrete paths of the Static routes of the table, as <<route, path>>:
\* the enumerator's paths when there is one, else the placeholder pattern
StaticPaths ==
    {rp \in (1..Len(routes)) \X (EnumPaths \cup PagePatterns) :
        /\ routes[rp[1]].kind = "Static"
        /\ IF routes[rp[1]].paths[1]
           THEN rp[2] \in Range(routes[rp[1]].paths[2])
           ELSE rp[2] = routes[rp[1]].pattern}

\* the file the specification names for a concrete path
PageFile(path) ==
    IF path = <<"/">> THEN <<"dist", "/", "index", ".html">>
    ELSE IF path[Len(path)] = "/" THEN <<"dist">> \o path \o <<"index", ".html">>
    ELSE <<"dist">> \o path \o <<".html">>

\* C3: every page export writes goes to the file its path maps to ("/" to
\* index.html at the root of distDir, a path ending in "/" to
\* <path>index.html, any other path to <path>.html) with exactly render(path)
\* as content, and after a successful export every concrete path of every
\* Static route has its file, holding a page rendered for that file.
C3_PathToFile ==
    /\ \A k \in PageWrites :
          /\ log[k].target = PageFile(log[k].path)
          /\ log[k].content = Render(log[k].route, log[k].path)
          /\ k > 1 /\ log[k - 1].op = "render" /\ log[k - 1].content = log[k].content
    /\ result = "ok" =>
          \A rp \in StaticPaths :
              /\ \E k \in PageWrites : log[k].route = rp[1] /\ log[k].path = rp[2]
              /\ PageFile(rp[2]) \in DOMAIN files
              /\ \E rq \in StaticPaths :
                    /\ PageFile(rq[2]) = PageFile(rp[2])
                    /\ files[PageFile(rp[2])] = Render(rq[1], rq[2])

\* C3 witness: a successful export that wrote all three kinds of path
C3_Witness ==
    /\ result = "ok"
    /\ \E a, b, c \in PageWrites :
          /\ log[a].path = <<"/">> /\ files[<<"dist", "/", "index", ".html">>] = log[a].content
          /\ log[b].path = <<"/", "blog", "/">>
          /\ files[<<"dist", "/", "blog", "/", "index", ".html">>] = log[b].content
          /\ log[c].path = <<"/", "about">>
          /\ files[<<"dist", "/", "about", ".html">>] = log[c].content

\* C4: export renders and writes pages only for the concrete paths of Static
\* routes, never for a Dynamic route, and a successful export has written
\* exactly those; the page files in distDir are exactly theirs.
C4_SkipsDynamic ==
    /\ \A k \in PageWrites \cup Renders :
          /\ routes[log[k].route].kind = "Static"
          /\ <<log[k].route, log[k].path>> \in StaticPaths
    /\ result = "ok" =>
          /\ {<<log[k].route, log[k].path>> : k \in PageWrites} = StaticPaths
          /\ {f \in DistFiles : files[f][1] = "page"}
                = {PageFile(rp[2]) : rp \in StaticPaths}

\* C4 witness: a successful export of a table with a Dynamic and a Static
\* route, the Static route's pages written
C4_Witness ==
    /\ result = "ok"
    /\ \E a, b \in 1..Len(routes) :
          routes[a].kind = "Dynamic" /\ routes[b].kind = "Static" /\ routes[b].paths[1]
    /\ PageWrites # {}

\* the content the last copy or write of this invocation gave a file
LastWritten(f) ==
    LET ks == {k \in Writes : log[k].target = f}
    IN log[CHOOSE k \in ks : \A j \in ks : j <= k].content

\* C5: after a successful export distDir holds exactly the files this
\* invocation copied or wrote, with the content it gave them, and exactly
\* the directories that lead to them: nothing from before survives.
C5_FullRebuild ==
    result = "ok" =>
        /\ DistFiles = {log[k].target : k \in Writes}
        /\ \A f \in DistFiles : files[f] = LastWritten(f)
        /\ DistDirs = {dist_path} \cup UNION {Ancestors(log[k].target) : k \in Writes}

\* C5 witness: a successful export after an aborted one, with files written
C5_Witness == result = "ok" /\ prev = "aborted" /\ Writes # {}

\* C6: after a successful export every regular file of the asset root is at
\* the same relative place in distDir with the same content, unless a page
\* was written there.
C6_AllAssetsCopied ==
    result = "ok" =>
        \A a \in {f \in DOMAIN files : Under(output_path, f)} :
            LET t == <<"dist", "/">> \o StripPrefix(a, output_path)
            IN /\ t \in DOMAIN files
               /\ files[t] = files[a] \/ files[t][1] = "page"

\* C6 witness of the failing input: a successful export whose asset root
\* holds a file that Walk's hidden filter drops
C6_HiddenAssetSkipped ==
    /\ result = "ok"
    /\ <<"out", "/", "output", "/", ".htaccess">> \in DOMAIN files
    /\ <<"dist", "/", ".htaccess">> \notin DOMAIN files

\* C7: a filesystem failure ends export at once with an error or a panic,
\* never success; until the next invocation nothing is copied, rendered or
\* written any more, and what the invocation had written stays in place.
C7_FailureAborts ==
    [][ /\ failedOp' # "none" => pc' = "done" /\ result' \in {"err", "panic"}
        /\ result' = "ok" => failedOp' = "none"
        /\ failedOp # "none" /\ pc' # "remove" => UNCHANGED <<files, dirs, log>>
        /\ failedOp = "none" /\ failedOp' # "none" =>
              /\ \A k \in Writes :
                    /\ log[k].target \in DOMAIN files'
                    /\ files'[log[k].target] \in {files[log[k].target], PartialContent}
              /\ \A k \in DOMAIN log : k \in DOMAIN log' /\ log'[k] = log[k]
      ]_vars

\* C7 witness: a write failed after an earlier page had been written
C7_Witness ==
    /\ failedOp = "write" /\ result = "err" /\ pc = "done"
    /\ PageWrites # {}

\* the page that is written last to file f, as <<route, position, path>>:
\* routes in registration order, paths in enumeration order
PageWriters(f) ==
    {w \in (1..Len(routes)) \X (1..(MaxPaths + 1)) \X (EnumPaths \cup PagePatterns) :
        /\ routes[w[1]].kind = "Static"
        /\ LET ps == IF routes[w[1]].paths[1] THEN routes[w[1]].paths[2]
                     ELSE <<routes[w[1]].pattern>>
           IN w[2] \in DOMAIN ps /\ ps[w[2]] = w[3]
        /\ PageFile(w[3]) = f}

Later(v, w) == v[1] > w[1] \/ (v[1] = w[1] /\ v[2] >= w[2])

\* C10: copies come before page writes, page writes come route by route in
\* registration order and path by path in enumeration order, and after a
\* successful export a file holds what its last writer in that order wrote:
\* the last page mapped to it, else the asset copied to it.
C10_LastWriterWins ==
    /\ \A j, k \in Writes :
          j < k => /\ ~(log[j].op = "write" /\ log[k].op = "copy")
                   /\ log[j].route <= log[k].route
    /\ \A r \in 1..Len(routes) :
          LET ks == {k \in PageWrites : log[k].route = r}
              ps == IF routes[r].paths[1] THEN routes[r].paths[2] ELSE <<routes[r].pattern>>
          IN \A k \in ks : LET n == Cardinality({j \in ks : j <= k})
                            IN n <= Len(ps) /\ log[k].path = ps[n]
    /\ result = "ok" =>
          \A f \in DistFiles :
              IF PageWriters(f) # {}
              THEN LET w == CHOOSE v \in PageWriters(f) : \A u \in PageWriters(f) : Later(v, u)
                   IN files[f] = Render(w[1], w[3])
              ELSE files[f] = files[<<"out", "/", "output", "/">> \o StripPrefix(f, dist_path)]

\* C10 witness: a successful export in which a page replaced a copied asset
\* and a later page replaced an earlier one
C10_Witness ==
    /\ result = "ok"
    /\ \E j, k \in Writes :
          j < k /\ log[j].op = "copy" /\ log[k].op = "write" /\ log[j].target = log[k].target
    /\ \E j, k \in PageWrites :
          j < k /\ log[j].target = log[k].target /\ log[j].path # log[k].path
          /\ files[log[k].target] = log[k].content

-----------------------------------------------------------------------------
(* include_dir! and embedded_directory                                     *)

\* the canonicalized path the macro is given
src_root == <<"site">>

\* what the source tree may hold, in the order PathBuf's Ord gives
SrcOrder == << <<"a", SEP, "x", ".css">>, <<"a", SEP, "y", ".js">>, <<"link">> >>

SrcFiles == { <<"a", SEP, "x", ".css">>, <<"a", SEP, "y", ".js">> }
SrcLinks == { <<"link">> }
LinkTargets == { <<"a", SEP, "x", ".css">>, <<"a">>, <<"gone">> }

RegularFile(data) == [kind |-> "file", data |-> data, target |-> <<>>]
Symlink(target) == [kind |-> "symlink", data |-> <<>>, target |-> target]

SrcTrees ==
    UNION { { [p \in fs \cup ls |-> IF p \in fs THEN RegularFile(d[p]) ELSE Symlink(t[p])] :
                d \in [fs -> FileData], t \in [ls -> LinkTargets] }
            : fs \in SUBSET SrcFiles, ls \in SUBSET SrcLinks }

\* the directories of a tree: the ancestors of its entries
SrcDirs(tree) == UNION {Ancestors(p) : p \in DOMAIN tree}

\* std::fs::metadata(path), which follows symbolic links: "file", "dir",
\* or "error" when the link leads nowhere
Metadata(tree, p) ==
    LET q == IF p \in DOMAIN tree /\ tree[p].kind = "symlink" THEN tree[p].target ELSE p
    IN IF q \in DOMAIN tree /\ tree[q].kind = "file" THEN "file"
       ELSE IF q \in SrcDirs(tree) THEN "dir"
       ELSE "error"

\* std::fs::read(path) and include_bytes!(path), which follow symbolic links
ReadBytes(tree, p) ==
    LET q == IF tree[p].kind = "symlink" THEN tree[p].target ELSE p
    IN tree[q].data

\* WalkDir::new(path): the directories, files and symbolic links below the
\* root; links are yielded, not followed
WalkDir(tree) == (DOMAIN tree) \cup SrcDirs(tree)

\* the filter_map closure: keep the entries whose metadata is_file()
KeepEntry(tree, p) == Metadata(tree, p) = "file"

\* absolute_paths.sort()
Sorted(paths) ==
    LET Kept(p) == Join(src_root, p) \in paths
    IN [k \in DOMAIN SelectSeq(SrcOrder, Kept) |-> Join(src_root, SelectSeq(SrcOrder, Kept)[k])]

\* the macro is expanded: lines 29-42 walk the tree, unwrap each entry's
\* metadata, keep the files and sort
CollectFiles ==
    /\ gpc = "walk"
    /\ IF \E p \in WalkDir(src) : Metadata(src, p) = "error"
       THEN gpc' = "panicked" /\ UNCHANGED absolute_paths
       ELSE /\ absolute_paths' =
                  Sorted({Join(src_root, p) : p \in {q \in WalkDir(src) : KeepEntry(src, q)}})
            /\ gpc' = "hash"
    /\ UNCHANGED <<src, hashes, embedded>>

\* quote! draws the next hash: hash(std::fs::read(path).unwrap())
HashNext ==
    /\ gpc = "hash"
    /\ IF Len(hashes) = Len(absolute_paths)
       THEN gpc' = "compile" /\ UNCHANGED hashes
       ELSE /\ hashes' = Append(hashes,
                   Fingerprint(ReadBytes(src,
                       StripPrefix(absolute_paths[Len(hashes) + 1], src_root))))
            /\ gpc' = "hash"
    /\ UNCHANGED <<src, absolute_paths, embedded>>

\* the generated code is compiled: include_bytes!(#absolute_paths) reads the
\* file, and the entry { data, hash: #hashes } goes into the map under the
\* relative path
IncludeNext ==
    /\ gpc = "compile"
    /\ LET n == Cardinality(DOMAIN embedded)
       IN IF n = Len(absolute_paths)
          THEN gpc' = "built" /\ UNCHANGED embedded
          ELSE LET rel == StripPrefix(absolute_paths[n + 1], src_root)
               IN /\ embedded' =
                        [q \in DOMAIN embedded \cup {rel} |->
                            IF q = rel
                            THEN [data |-> ReadBytes(src, rel), hash |-> hashes[n + 1]]
                            ELSE embedded[q]]
                  /\ gpc' = "compile"
    /\ UNCHANGED <<src, absolute_paths, hashes>>

\* another process rewrites a source file while the build runs
ModifySource(p, data) ==
    /\ gpc \in {"walk", "hash", "compile"}
    /\ p \in DOMAIN src
    /\ src[p].kind = "file"
    /\ src[p].data # data
    /\ src' = [src EXCEPT ![p] = RegularFile(data)]
    /\ UNCHANGED <<gpc, absolute_paths, hashes, embedded>>

InitEmbed ==
    /\ src \in SrcTrees
    /\ gpc = "walk"
    /\ absolute_paths = <<>>
    /\ hashes = <<>>
    /\ embedded = <<>>
    /\ ExportIdle
    /\ ServeIdle

NextEmbed ==
    \/ CollectFiles /\ UNCHANGED <<exportVars, serveVars>>
    \/ HashNext /\ UNCHANGED <<exportVars, serveVars>>
    \/ IncludeNext /\ UNCHANGED <<exportVars, serveVars>>
    \/ \E p \in SrcFiles, data \in FileData :
          ModifySource(p, data) /\ UNCHANGED <<exportVars, serveVars>>

SpecEmbed == InitEmbed /\ [][NextEmbed]_vars

-----------------------------------------------------------------------------
(* Properties of the embedding generator                                   *)

\* C8: every embedded file's stored hash is the fingerprint of the bytes
\* embedded for it, also when the sources are rewritten during the build.
C8_HashMatchesData ==
    gpc = "built" =>
        \A p \in DOMAIN embedded : embedded[p].hash = Fingerprint(embedded[p].data)

\* C8 failing input reached: a built map whose entry carries the hash of
\* bytes that are no longer the bytes embedded
C8_StaleHash ==
    /\ gpc = "built"
    /\ \E p \in DOMAIN embedded : embedded[p].hash # Fingerprint(embedded[p].data)

\* C9: the keys of the embedded map are exactly the relative paths of the
\* regular files of the source tree, directories and symbolic links left
\* out, and a tree with an unreadable entry yields no map at all.
C9_OnlyRegularFiles ==
    /\ gpc = "built" => DOMAIN embedded = {p \in DOMAIN src : src[p].kind = "file"}
    /\ (\E p \in DOMAIN src : Metadata(src, p) = "error")
          => gpc \in {"walk", "panicked"} /\ embedded = <<>>

\* C9 failing input reached: a built map with a symbolic link among its keys
C9_SymlinkEmbedded ==
    /\ gpc = "built"
    /\ \E p \in DOMAIN embedded : src[p].kind = "symlink"

====
